---- MODULE Spec2Model ----
(***************************************************************************)
(* Model of the FIDUCEO MVIRI FCDR file handlers                           *)
(* (satpy/readers/mviri_l1b_fiduceo_nc.py): channel calibration, quality   *)
(* masking, tie-point interpolation, acquisition time, orbital parameters  *)
(* and the area definition.                                                *)
(*                                                                         *)
(* Numbers.  A floating point value is a record: a number [k = "num"], a   *)
(* not-a-number [k = "nan"] or an infinity [k = "inf", v = sign].  Numbers *)
(* are integers in a unit fixed per quantity:                              *)
(*   counts, radiance, timestamps, positions   1                           *)
(*   slopes b_wv, b_ir                         1/2  (0.5 is held as 1)      *)
(*   angles                                    1/1000 degree               *)
(*   cosines                                   1/10000                     *)
(*   logarithms                                1/1000                      *)
(*   line and column offsets                   1/2 pixel                   *)
(* Arrays are sequences of rows, indexed [y][x] from 1.                    *)
(***************************************************************************)
EXTENDS Integers, Sequences, FiniteSets, TLC

VARIABLES
    variant,               \* which handler class was constructed
    mask_bad_quality,      \* self.mask_bad_quality
    projection_longitude,  \* self.projection_longitude
    nc,                    \* self.nc: the opened file, variable name -> content
    call,                  \* the last request and its arguments
    ret,                   \* what the last request returned or raised
    handlers,              \* the handlers constructed, where several share the caches
    angles_cache,          \* lru_cache of _get_angles, least recently used first
    acq_time_cache         \* lru_cache of _get_acq_time, least recently used first

vars == <<variant, mask_bad_quality, projection_longitude, nc, call, ret,
          handlers, angles_cache, acq_time_cache>>

----------------------------------------------------------------------------
\* Module constants of the reader.

EQUATOR_RADIUS == 6378140
POLE_RADIUS == 6356755
ALTITUDE == 42164000 - EQUATOR_RADIUS
MVIRI_FIELD_OF_VIEW == 18
CHANNELS == {"VIS", "WV", "IR"}
ANGLES == {"solar_zenith_angle", "solar_azimuth_angle",
           "satellite_zenith_angle", "satellite_azimuth_angle"}
OTHER_REFLECTANCES == {"u_independent_toa_bidirectional_reflectance",
                       "u_structured_toa_bidirectional_reflectance"}
HIGH_RESOL == 2250

Variants == {"Easy", "Full"}
Calibrations == {"counts", "radiance", "reflectance", "brightness_temperature"}

----------------------------------------------------------------------------
\* Floating point values.

NaN == [k |-> "nan", v |-> 0]
Num(n) == [k |-> "num", v |-> n]
Inf(s) == [k |-> "inf", v |-> s]

isnan(x) == x.k = "nan"
Sign(n) == IF n > 0 THEN 1 ELSE IF n < 0 THEN -1 ELSE 0
Abs(n) == IF n < 0 THEN -n ELSE n

\* x + y
AddF(x, y) ==
    IF isnan(x) \/ isnan(y) THEN NaN
    ELSE IF x.k = "inf" /\ y.k = "inf" THEN (IF x.v = y.v THEN x ELSE NaN)
    ELSE IF x.k = "inf" THEN x
    ELSE IF y.k = "inf" THEN y
    ELSE Num(x.v + y.v)

\* x * n for an integer n
ScaleF(x, n) ==
    IF isnan(x) THEN NaN
    ELSE IF x.k = "inf" THEN (IF n = 0 THEN NaN ELSE Inf(x.v * Sign(n)))
    ELSE Num(x.v * n)

\* num / den for integers, the quotient in units of 1/scale
DivF(num, den, scale) ==
    IF den = 0 THEN (IF num = 0 THEN NaN ELSE Inf(Sign(num)))
    ELSE IF den > 0 THEN Num((num * scale) \div den)
    ELSE Num(((0 - num) * scale) \div (0 - den))

\* x > n
GtF(x, n) == (x.k = "num" /\ x.v > n) \/ (x.k = "inf" /\ x.v > 0)

\* x < n
LtF(x, n) == (x.k = "num" /\ x.v < n) \/ (x.k = "inf" /\ x.v < 0)

\* fabs(x)
fabs(x) == IF x.k = "num" THEN Num(Abs(x.v)) ELSE IF x.k = "inf" THEN Inf(1) ELSE NaN

----------------------------------------------------------------------------
\* Arrays.

NRows(arr) == Len(arr)
NCols(arr) == IF Len(arr) = 0 THEN 0 ELSE Len(arr[1])
Pixels(arr) == {<<y, x>> : y \in 1..NRows(arr), x \in 1..NCols(arr)}

\* apply f to every element
MapArr(f(_), arr) == [y \in 1..NRows(arr) |-> [x \in 1..NCols(arr) |-> f(arr[y][x])]]

\* DataArray.where(cond, nan): keep the element where cond holds
WhereArr(arr, cond(_, _)) ==
    [y \in 1..NRows(arr) |->
        [x \in 1..NCols(arr) |-> IF cond(y, x) THEN arr[y][x] ELSE NaN]]

----------------------------------------------------------------------------
\* Reading the file.

Err(kind) == [err |-> kind]
Failed(r) == r.err # "none"

\* nc_keys of the handler class: Easy stores the VIS reflectance, Full the counts
get_nc_key(v, ds_name) ==
    CASE ds_name = "WV" -> "count_wv"
      [] ds_name = "IR" -> "count_ir"
      [] ds_name = "VIS" /\ v = "Easy" -> "toa_bidirectional_reflectance_vis"
      [] ds_name = "VIS" /\ v = "Full" -> "count_vis"
      [] OTHER -> ds_name

read_dataset(v, f, name) == f[get_nc_key(v, name)]

\* a variant of is_high_resol: every resolution from HIGH_RESOL up is high
is_high_resol_atleast(resolution) == resolution >= HIGH_RESOL

is_high_resol(resolution) == resolution = HIGH_RESOL

----------------------------------------------------------------------------
\* IR and WV calibration.

nc_keys_coefs(channel, calibration) ==
    CASE channel = "WV" /\ calibration = "radiance" -> <<"a_wv", "b_wv">>
      [] channel = "WV" /\ calibration = "brightness_temperature" -> <<"bt_a_wv", "bt_b_wv">>
      [] channel = "IR" /\ calibration = "radiance" -> <<"a_ir", "b_ir">>
      [] channel = "IR" /\ calibration = "brightness_temperature" -> <<"bt_a_ir", "bt_b_ir">>

\* Offset (a), Slope (b)
get_coefs_ir_wv(f, channel, calibration) ==
    LET keys == nc_keys_coefs(channel, calibration)
    IN  <<f[keys[1]], f[keys[2]]>>

\* b * counts for a slope b held in halves
SlopeTimes(b, c) == IF c.k = "num" THEN Num((b * c.v) \div 2) ELSE ScaleF(c, b)

\* a variant of ir_wv_counts_to_radiance: rad.where(rad >= 0, nan)
ir_wv_counts_to_radiance_nonneg(f, counts, channel) ==
    LET coefs == get_coefs_ir_wv(f, channel, "radiance")
        rad == [y \in 1..NRows(counts) |-> [x \in 1..NCols(counts) |->
                   AddF(Num(coefs[1]), SlopeTimes(coefs[2], counts[y][x]))]]
        NonNegative(y, x) == GtF(rad[y][x], -1)
    IN  WhereArr(rad, NonNegative)

\* rad = a + b * counts; rad.where(rad > 0, nan)
ir_wv_counts_to_radiance(f, counts, channel) ==
    LET coefs == get_coefs_ir_wv(f, channel, "radiance")
        rad == [y \in 1..NRows(counts) |-> [x \in 1..NCols(counts) |->
                   AddF(Num(coefs[1]), SlopeTimes(coefs[2], counts[y][x]))]]
        Positive(y, x) == GtF(rad[y][x], 0)
    IN  WhereArr(rad, Positive)

\* floor(log2(n)) for n >= 1
RECURSIVE Log2(_)
Log2(n) == IF n < 2 THEN 0 ELSE 1 + Log2(n \div 2)

RECURSIVE Pow2(_)
Pow2(k) == IF k = 0 THEN 1 ELSE 2 * Pow2(k - 1)

\* np.log of a positive number, in 1/1000: with n = 2^k * m, 1 <= m < 2 and
\* u = (m - 1) / (m + 1), ln n = k ln 2 + 2 (u + u^3 / 3 + ...)
log(x) ==
    IF x.k = "nan" \/ LtF(x, 0) THEN NaN
    ELSE IF x.k = "inf" THEN x
    ELSE IF x.v = 0 THEN Inf(-1)
    ELSE LET k == Log2(x.v)
             u == (1000 * (x.v - Pow2(k))) \div (x.v + Pow2(k))
         IN  Num(693 * k + 2 * u + (2 * u * u * u) \div 3000000)

\* a variant of ir_wv_radiance_to_brightness_temperature: bt is returned as
\* computed
ir_wv_radiance_to_brightness_temperature_raw(f, rad, channel) ==
    LET coefs == get_coefs_ir_wv(f, channel, "brightness_temperature")
        Bt(r) == LET den == AddF(log(r), Num(0 - 1000 * coefs[1]))
                 IN  IF den.k = "nan" THEN NaN
                     ELSE IF den.k = "inf" THEN Num(0)
                     ELSE DivF(1000 * coefs[2], den.v, 1)
    IN  MapArr(Bt, rad)

\* bt = b / (np.log(rad) - a); bt.where(bt > 0, nan)
ir_wv_radiance_to_brightness_temperature(f, rad, channel) ==
    LET coefs == get_coefs_ir_wv(f, channel, "brightness_temperature")
        Bt(r) == LET den == AddF(log(r), Num(0 - 1000 * coefs[1]))
                 IN  IF den.k = "nan" THEN NaN
                     ELSE IF den.k = "inf" THEN Num(0)
                     ELSE DivF(1000 * coefs[2], den.v, 1)
        bt == MapArr(Bt, rad)
        Positive(y, x) == GtF(bt[y][x], 0)
    IN  WhereArr(bt, Positive)

\* radiance or brightness temperature from the radiance rad
calibrate_ir_wv_radiance(f, rad, channel, calibration) ==
    IF calibration = "radiance" THEN [err |-> "none", data |-> rad, refl |-> FALSE]
    ELSE [err |-> "none", refl |-> FALSE,
          data |-> ir_wv_radiance_to_brightness_temperature(f, rad, channel)]

calibrate_ir_wv(f, ds, channel, calibration) ==
    IF calibration = "counts" THEN [err |-> "none", data |-> ds, refl |-> FALSE]
    ELSE IF calibration \in {"radiance", "brightness_temperature"}
    THEN calibrate_ir_wv_radiance(f, ir_wv_counts_to_radiance(f, ds, channel),
                                  channel, calibration)
    ELSE Err("KeyError")

----------------------------------------------------------------------------
\* Tie-point interpolation.

\* values[::step] for step >= 1
Stride(values, step) ==
    [i \in 1..((Len(values) + step - 1) \div step) |-> values[(i - 1) * step + 1]]

\* the knot interval of coordinate t: the first knot at or after t, and at least
\* the second
UpperKnot(knots, t) ==
    LET at == {i \in 1..Len(knots) : knots[i] >= t}
        first == CHOOSE i \in at : \A j \in at : i <= j
    IN  IF first < 2 THEN 2 ELSE first

\* a variant of Interp1: the weights of the two knots exchanged
Interp1_exchanged(knots, values, t) ==
    IF t < knots[1] \/ t > knots[Len(knots)] THEN NaN
    ELSE LET hi == UpperKnot(knots, t)
             lo == hi - 1
         IN  IF values[lo].k # "num" \/ values[hi].k # "num" THEN NaN
             ELSE Num(values[lo].v
                      + ((values[hi].v - values[lo].v) * (knots[hi] - t))
                        \div (knots[hi] - knots[lo]))

\* linear interpolation of the values at the knots onto coordinate t; outside
\* the knots the result is not-a-number
Interp1(knots, values, t) ==
    IF t < knots[1] \/ t > knots[Len(knots)] THEN NaN
    ELSE LET hi == UpperKnot(knots, t)
             lo == hi - 1
         IN  IF values[lo].k # "num" \/ values[hi].k # "num" THEN NaN
             ELSE Num(values[lo].v
                      + ((values[hi].v - values[lo].v) * (t - knots[lo]))
                        \div (knots[hi] - knots[lo]))

\* ds.interp(x=target_x, y=target_y): linear along x, then along y
InterpGrid(ds, xs, ys, target_x, target_y) ==
    LET alongx == [y \in 1..NRows(ds) |->
                      [x \in 1..Len(target_x) |-> Interp1(xs, ds[y], target_x[x])]]
        Column(x) == [y \in 1..NRows(ds) |-> alongx[y][x]]
    IN  [y \in 1..Len(target_y) |->
            [x \in 1..Len(target_x) |-> Interp1(ys, Column(x), target_y[y])]]

interp_tiepoints(ds, target_x, target_y) ==
    LET sampling == Len(target_x) \div NCols(ds)
    IN  IF sampling = 0 THEN Err("ValueError")  \* slice step cannot be zero
        ELSE LET xs == Stride(target_x, sampling)
                 ys == Stride(target_y, sampling)
             IN  IF Len(xs) # NCols(ds) \/ Len(ys) # NRows(ds)
                 THEN Err("ValueError")  \* assign_coords: conflicting sizes
                 ELSE [err |-> "none",
                       data |-> InterpGrid(ds, xs, ys, target_x, target_y)]

get_angles(v, f, name, resolution) ==
    LET angles == read_dataset(v, f, name)
    IN  IF is_high_resol(resolution)
        THEN interp_tiepoints(angles, f.x, f.y)
        ELSE interp_tiepoints(angles, f.x_ir_wv, f.y_ir_wv)

----------------------------------------------------------------------------
\* Acquisition time.

RECURSIVE SumSeq(_)
SumSeq(s) == IF Len(s) = 0 THEN 0 ELSE Head(s) + SumSeq(Tail(s))

\* time2d.mean(dim='x_ir_wv')
MeanPerLine(time2d) == [y \in 1..NRows(time2d) |-> SumSeq(time2d[y]) \div NCols(time2d)]

\* a variant of Repeat: np.tile(y, reps)
Repeat_tile(values, reps) ==
    [i \in 1..(Len(values) * reps) |-> values[((i - 1) % Len(values)) + 1]]

\* np.repeat(y, reps)
Repeat(values, reps) ==
    [i \in 1..(Len(values) * reps) |-> values[((i - 1) \div reps) + 1]]

\* the position of label in the index
IndexOf(index, label) == CHOOSE i \in 1..Len(index) : index[i] = label

\* time2d: the timestamps, y: their y_ir_wv coordinates
interp_acq_time(time2d, y, target_y) ==
    LET time == MeanPerLine(time2d)
    IN  IF Len(y) < Len(target_y)
        THEN LET reps == Len(target_y) \div Len(y)
                 y_rep == Repeat(y, reps)
                 time_hires == [i \in 1..Len(y_rep) |-> time[IndexOf(y, y_rep[i])]]
             IN  IF Len(time_hires) # Len(target_y)
                 THEN Err("ValueError")  \* assign_coords: conflicting sizes
                 ELSE [err |-> "none", data |-> time_hires, y |-> target_y]
        ELSE [err |-> "none", data |-> time, y |-> y]

get_acq_time(f, resolution) ==
    LET time2d == IF "time_ir_wv" \in DOMAIN f THEN f.time_ir_wv ELSE f.time
    IN  IF is_high_resol(resolution)
        THEN interp_acq_time(time2d, f.y_ir_wv, f.x)
        ELSE interp_acq_time(time2d, f.y_ir_wv, f.x_ir_wv)

----------------------------------------------------------------------------
\* VIS calibration.

\* sun_earth_distance_correction_* attributes of a reflectance
update_refl_attrs(f, refl) ==
    [err |-> "none", data |-> refl, refl |-> TRUE]

\* a variant of calibrate_vis_easy: counts are handed out as stored
calibrate_vis_easy_counts(f, ds, calibration) ==
    IF calibration = "reflectance"
    THEN LET Percent(e) == ScaleF(e, 100)
         IN  update_refl_attrs(f, MapArr(Percent, ds))
    ELSE IF calibration = "counts" THEN [err |-> "none", data |-> ds, refl |-> FALSE]
    ELSE IF calibration = "radiance" THEN Err("ValueError")
    ELSE Err("KeyError")

\* Easy FCDR provides reflectance only
calibrate_vis_easy(f, ds, calibration) ==
    IF calibration = "reflectance"
    THEN LET Percent(e) == ScaleF(e, 100)
         IN  update_refl_attrs(f, MapArr(Percent, ds))
    ELSE IF calibration \in {"counts", "radiance"} THEN Err("ValueError")
    ELSE Err("KeyError")

\* rad = (counts - mean_count_space_vis) * a_cf; rad.where(rad > 0, nan)
vis_counts_to_radiance(f, counts) ==
    LET years_since_launch == f.years_since_launch
        a_cf == f.a0_vis + f.a1_vis * years_since_launch
                + f.a2_vis * years_since_launch * years_since_launch
        Rad(c) == ScaleF(AddF(c, Num(0 - f.mean_count_space_vis)), a_cf)
        rad == MapArr(Rad, counts)
        Positive(y, x) == GtF(rad[y][x], 0)
    IN  WhereArr(rad, Positive)

\* np.cos(np.deg2rad(sza)), in 1/10000, for sza in 1/1000 degree: with d the
\* angle in 1/10 degree, cos = (1800^2 - 4 d^2) / (1800^2 + d^2)
cos_deg(sza) ==
    IF sza.k # "num" THEN NaN
    ELSE LET d == Abs(sza.v) \div 100
         IN  Num(((3240000 - 4 * d * d) * 100) \div ((3240000 + d * d) \div 100))

\* a variant of mask_sza: sza.where(da.fabs(sza) <= 90, nan)
mask_sza_inclusive(sza) ==
    LET Illuminated(y, x) == LtF(fabs(sza[y][x]), 90001)
    IN  WhereArr(sza, Illuminated)

\* sza.where(da.fabs(sza) < 90, nan): direct illumination only
mask_sza(sza) ==
    LET Illuminated(y, x) == LtF(fabs(sza[y][x]), 90000)
    IN  WhereArr(sza, Illuminated)

\* refl = (pi * distance_sun_earth^2) / (solar_irradiance_vis * cos_sza) * rad * 100,
\* with pi = 22/7, for the solar zenith angles sza
reflectance(f, rad, sza) ==
    LET distance_sun_earth2 == f.distance_sun_earth * f.distance_sun_earth
        Refl(r, cos_sza) ==
            IF cos_sza.k # "num" \/ r.k # "num" THEN NaN
            ELSE DivF(22 * distance_sun_earth2 * r.v * 100,
                      7 * f.solar_irradiance_vis * cos_sza.v, 10000)
    IN  [y \in 1..NRows(rad) |->
            [x \in 1..NCols(rad) |-> Refl(rad[y][x], cos_deg(sza[y][x]))]]

\* the reflectance once the angles are there; angles: what _get_angles returned
reflectance_of(f, rad, angles) ==
    IF Failed(angles) THEN angles
    ELSE update_refl_attrs(f, reflectance(f, rad, mask_sza(angles.data)))

vis_radiance_to_reflectance(v, f, rad) ==
    reflectance_of(f, rad, get_angles(v, f, "solar_zenith_angle", HIGH_RESOL))

\* radiance or reflectance from the radiance rad
calibrate_vis_radiance(v, f, rad, calibration) ==
    IF calibration = "radiance" THEN [err |-> "none", data |-> rad, refl |-> FALSE]
    ELSE vis_radiance_to_reflectance(v, f, rad)

\* all calibration levels are available in the Full FCDR
calibrate_vis_full(v, f, ds, calibration) ==
    IF calibration = "counts" THEN [err |-> "none", data |-> ds, refl |-> FALSE]
    ELSE IF calibration \in {"radiance", "reflectance"}
    THEN calibrate_vis_radiance(v, f, vis_counts_to_radiance(f, ds), calibration)
    ELSE Err("KeyError")

calibrate_vis(v, f, ds, calibration) ==
    IF v = "Easy" THEN calibrate_vis_easy(f, ds, calibration)
    ELSE calibrate_vis_full(v, f, ds, calibration)

calibrate(v, f, ds, channel, calibration) ==
    IF channel = "VIS" THEN calibrate_vis(v, f, ds, calibration)
    ELSE IF channel \in {"WV", "IR"} THEN calibrate_ir_wv(f, ds, channel, calibration)
    ELSE Err("KeyError")

----------------------------------------------------------------------------
\* VIS quality.

\* da.bitwise_and(m, 2)
use_with_caution(m) == ((m \div 2) % 2) * 2

\* a variant of check_vis_quality: use_with_caution.any()
check_vis_quality_any(v, f) ==
    LET mask == read_dataset(v, f, "quality_pixel_bitmask")
    IN  \E p \in Pixels(mask) : use_with_caution(mask[p[1]][p[2]]) # 0

\* TRUE when the warning is issued: all pixels are flagged "use with caution"
check_vis_quality(v, f) ==
    LET mask == read_dataset(v, f, "quality_pixel_bitmask")
    IN  \A p \in Pixels(mask) : use_with_caution(mask[p[1]][p[2]]) # 0

\* a variant of mask_vis: only "use with caution" pixels are masked
mask_vis_caution_only(v, f, ds) ==
    LET mask == read_dataset(v, f, "quality_pixel_bitmask")
        Good(y, x) == use_with_caution(mask[y][x]) = 0
    IN  WhereArr(ds, Good)

\* ds.where(mask == 0, nan)
mask_vis(v, f, ds) ==
    LET mask == read_dataset(v, f, "quality_pixel_bitmask")
        Good(y, x) == mask[y][x] = 0
    IN  WhereArr(ds, Good)

----------------------------------------------------------------------------
\* Datasets.

\* ds['acq_time'] = ('y', acq_time)
attach_acq_time(data, refl, warned, acq_time) ==
    IF Failed(acq_time) THEN [err |-> acq_time.err, warned |-> warned]
    ELSE IF Len(acq_time.data) # NRows(data)
    THEN [err |-> "ValueError", warned |-> warned]  \* conflicting sizes
    ELSE [err |-> "none", data |-> data, acq_time |-> acq_time.data,
          refl |-> refl, warned |-> warned]

\* the quality step and the acquisition time of the calibrated dataset cal
finish_channel(v, mbq, f, name, cal, acq_time) ==
    IF Failed(cal) THEN [err |-> cal.err, warned |-> FALSE]
    ELSE attach_acq_time(
             IF name = "VIS" /\ mbq THEN mask_vis(v, f, cal.data) ELSE cal.data,
             cal.refl,
             name = "VIS" /\ ~mbq /\ check_vis_quality(v, f),
             acq_time)

get_channel(v, mbq, f, name, resolution, calibration) ==
    finish_channel(v, mbq, f, name,
                   calibrate(v, f, read_dataset(v, f, name), name, calibration),
                   get_acq_time(f, resolution))

get_other_dataset(v, f, name) ==
    LET ds == read_dataset(v, f, name)
        Percent(e) == ScaleF(e, 100)
    IN  IF name \in OTHER_REFLECTANCES THEN MapArr(Percent, ds) ELSE ds

----------------------------------------------------------------------------
\* Orbital parameters.

\* a variant of nanmean: np.mean([start, end])
nanmean_mean(start, end) ==
    LET sum == AddF(start, end)
    IN  IF sum.k = "num" THEN Num(sum.v \div 2) ELSE sum

\* np.nanmean([start, end]): the mean of the samples that are not nan
nanmean(start, end) ==
    IF isnan(start) /\ isnan(end) THEN NaN
    ELSE IF isnan(start) THEN end
    ELSE IF isnan(end) THEN start
    ELSE LET sum == AddF(start, end)
         IN  IF sum.k = "num" THEN Num(sum.v \div 2) ELSE sum

get_ssp(f, coord) ==
    LET key_start == IF coord = "longitude" THEN "sub_satellite_longitude_start"
                     ELSE "sub_satellite_latitude_start"
        key_end == IF coord = "longitude" THEN "sub_satellite_longitude_end"
                   ELSE "sub_satellite_latitude_end"
    IN  IF key_start \in DOMAIN f /\ key_end \in DOMAIN f
        THEN nanmean(f[key_start], f[key_end])
        ELSE NaN  \* KeyError: variables seem to be missing in full FCDR

get_ssp_lonlat(f) == <<get_ssp(f, "longitude"), get_ssp(f, "latitude")>>

get_orbital_parameters(plon, f) ==
    LET orbital_parameters == [projection_longitude |-> plon,
                               projection_latitude |-> 0,
                               projection_altitude |-> ALTITUDE]
        ssp == get_ssp_lonlat(f)
    IN  IF ~isnan(ssp[1]) /\ ~isnan(ssp[2])
        THEN [projection_longitude |-> plon,
              projection_latitude |-> 0,
              projection_altitude |-> ALTITUDE,
              satellite_actual_longitude |-> ssp[1],
              satellite_actual_latitude |-> ssp[2]]
        ELSE orbital_parameters

\* ds.attrs after _update_attrs
update_attrs(plon, f, ds, channel) ==
    IF Failed(ds) THEN [err |-> ds.err, warned |-> ds.warned]
    ELSE [err |-> "none", data |-> ds.data, warned |-> ds.warned,
          acq_time |-> IF channel THEN ds.acq_time ELSE << >>,
          attrs |-> [sun_earth_distance_correction_applied |-> ds.refl,
                     orbital_parameters |-> get_orbital_parameters(plon, f)]]

\* an interpolated angle dataset; a: what _get_angles returned
angle_dataset(a) ==
    IF Failed(a) THEN [err |-> a.err, warned |-> FALSE]
    ELSE [err |-> "none", data |-> a.data, refl |-> FALSE, warned |-> FALSE]

get_dataset(v, mbq, plon, f, name, resolution, calibration) ==
    update_attrs(plon, f,
        IF name \in ANGLES THEN angle_dataset(get_angles(v, f, name, resolution))
        ELSE IF name \in CHANNELS
        THEN get_channel(v, mbq, f, name, resolution, calibration)
        ELSE [err |-> "none", data |-> get_other_dataset(v, f, name),
              refl |-> FALSE, warned |-> FALSE],
        name \in CHANNELS)

----------------------------------------------------------------------------
\* Area definition.

\* satpy.readers._geos_area.sampling_to_lfac_cfac for the sampling
\* deg2rad(fov) / im_size: 2^16 / rad2deg(sampling)
sampling_to_lfac_cfac(fov, im_size) == (65536 * im_size) \div fov

\* the projection dictionary handed to get_area_extent and get_area_definition;
\* loff and coff are in half pixels
get_area_def(plon, f, resolution) ==
    LET high == is_high_resol(resolution)
        im_size == IF high THEN Len(f.y) ELSE Len(f.y_ir_wv)
        area_name == IF high THEN "geos_mviri_vis" ELSE "geos_mviri_ir_wv"
        loff == im_size + 1
        coff == im_size + 1
        lfac == sampling_to_lfac_cfac(MVIRI_FIELD_OF_VIEW, im_size)
        cfac == lfac
    IN  [ssp_lon |-> plon,
         a |-> EQUATOR_RADIUS,
         b |-> POLE_RADIUS,
         h |-> ALTITUDE,
         units |-> "m",
         loff |-> loff - 2 * im_size,
         coff |-> coff,
         lfac |-> 0 - lfac,
         cfac |-> 0 - cfac,
         nlines |-> im_size,
         ncols |-> im_size,
         scandir |-> "S2N",
         p_id |-> area_name,
         a_name |-> area_name,
         a_desc |-> "MVIRI Geostationary Projection"]

----------------------------------------------------------------------------
\* The files a handler is constructed on.  The tie-point grid is TieSize x
\* TieSize, the IR/WV grid has the same size and the VIS grid twice that.

TieSize == 2
LowSize == TieSize
HighSize == 2 * TieSize
LOW_RESOL == 4500

\* a square array that alternates between the two values of pair
Board(n, pair) == [y \in 1..n |-> [x \in 1..n |-> pair[((x + y) % 2) + 1]]]

\* the coordinates first, first + 1, ... of an axis of n elements
Coords(n, first) == [i \in 1..n |-> first + i - 1]

NumPair(pair) == <<Num(pair[1]), Num(pair[2])>>

Missing == [k |-> "missing", v |-> 0]

\* what varies between the files: the content of the variables named
Default ==
    [vis |-> <<5, 1>>, bitmask |-> <<0, 0>>,
     count_ir |-> <<100, 200>>, a_ir |-> -10, b_ir |-> 1,
     count_wv |-> <<200, 0>>, a_wv |-> 0, b_wv |-> 2,
     bt_a |-> -2, bt_b |-> 1300,
     sza |-> <<0, 60000>>,
     times |-> [y \in 1..LowSize |-> 10 * y], time_key |-> "time_ir_wv",
     lon_start |-> Num(4), lon_end |-> Num(-2),
     lat_start |-> Num(2), lat_end |-> Num(0)]

CountPairs == {<<0, 100>>, <<100, 200>>, <<200, 200>>}
OffsetVals == {-10, 0}
SlopeVals == {-1, 1}
BtCountPairs == {<<0, 22>>, <<100, 200>>}
BtOffsetVals == {-2, 0, 5}
BtSlopeVals == {-1300, 1300}
VisPairs == {<<0, 1>>, <<5, 1>>, <<5, 5>>}
BitmaskVals == 0..3
SzaVals == {-90000, -89999, 0, 89999, 90000, 120000}
TimeVals == {10, 20, 30}
LonVals == {Missing, NaN, Inf(1), Inf(-1), Num(-2), Num(4)}
LatPairs == {<<Num(2), Num(0)>>, <<Num(2), Missing>>, <<NaN, Num(0)>>, <<NaN, NaN>>}
ProjectionLongitudes == {0, 57}

Handler(v, mbq, plon, p) ==
    [variant |-> v, mask_bad_quality |-> mbq, projection_longitude |-> plon, p |-> p]

\* the handlers constructed: each family varies the variables one request reads
Handlers ==
       {Handler(v, mbq, 0,
                [Default EXCEPT !.count_ir = c, !.a_ir = a, !.b_ir = b,
                                !.count_wv = <<c[2], c[1]>>, !.a_wv = a + 5,
                                !.b_wv = 0 - 2 * b]) :
            v \in Variants, mbq \in BOOLEAN,
            c \in CountPairs, a \in OffsetVals, b \in SlopeVals}
  \cup {Handler("Full", FALSE, 0,
                [Default EXCEPT !.count_ir = c, !.count_wv = <<c[2], c[1]>>,
                                !.bt_a = a, !.bt_b = b]) :
            c \in BtCountPairs, a \in BtOffsetVals, b \in BtSlopeVals}
  \cup {Handler(v, mbq, 0, [Default EXCEPT !.vis = c, !.bitmask = m]) :
            v \in Variants, mbq \in BOOLEAN,
            c \in VisPairs, m \in BitmaskVals \X (BitmaskVals \ {1})}
  \cup {Handler("Full", FALSE, 0, [Default EXCEPT !.sza = s]) : s \in SzaVals \X SzaVals}
  \cup {Handler("Full", FALSE, 0, [Default EXCEPT !.times = t, !.time_key = k]) :
            t \in [1..LowSize -> TimeVals], k \in {"time", "time_ir_wv"}}
  \cup {Handler("Easy", FALSE, 0,
                [Default EXCEPT !.lon_start = a, !.lon_end = b,
                                !.lat_start = c[1], !.lat_end = c[2]]) :
            a \in LonVals, b \in LonVals, c \in LatPairs}
  \cup {Handler(v, FALSE, plon, Default) : v \in Variants, plon \in ProjectionLongitudes}

Optional(p) ==
    {k \in {"lon_start", "lon_end", "lat_start", "lat_end"} : p[k] # Missing}

VariableNames(v, p) ==
    {"x", "y", "x_ir_wv", "y_ir_wv", "count_wv", "count_ir",
     "a_wv", "b_wv", "bt_a_wv", "bt_b_wv", "a_ir", "b_ir", "bt_a_ir", "bt_b_ir",
     "quality_pixel_bitmask", "solar_zenith_angle", "solar_azimuth_angle",
     "satellite_zenith_angle", "satellite_azimuth_angle",
     "distance_sun_earth", "solar_irradiance_vis", "years_since_launch",
     "a0_vis", "a1_vis", "a2_vis", "mean_count_space_vis",
     "u_independent_toa_bidirectional_reflectance",
     "u_structured_toa_bidirectional_reflectance"}
    \cup {p.time_key}
    \cup {IF v = "Easy" THEN "toa_bidirectional_reflectance_vis" ELSE "count_vis"}
    \cup (IF "lon_start" \in Optional(p) THEN {"sub_satellite_longitude_start"} ELSE {})
    \cup (IF "lon_end" \in Optional(p) THEN {"sub_satellite_longitude_end"} ELSE {})
    \cup (IF "lat_start" \in Optional(p) THEN {"sub_satellite_latitude_start"} ELSE {})
    \cup (IF "lat_end" \in Optional(p) THEN {"sub_satellite_latitude_end"} ELSE {})

Content(p, name) ==
    CASE name = "x" -> Coords(HighSize, 0)
      [] name = "y" -> Coords(HighSize, 100)
      [] name = "x_ir_wv" -> Coords(LowSize, 0)
      [] name = "y_ir_wv" -> Coords(LowSize, 100)
      [] name \in {"count_vis", "toa_bidirectional_reflectance_vis"} ->
            Board(HighSize, NumPair(p.vis))
      [] name = "count_wv" -> Board(LowSize, NumPair(p.count_wv))
      [] name = "count_ir" -> Board(LowSize, NumPair(p.count_ir))
      [] name = "a_wv" -> p.a_wv
      [] name = "b_wv" -> p.b_wv
      [] name = "a_ir" -> p.a_ir
      [] name = "b_ir" -> p.b_ir
      [] name = "bt_a_wv" -> p.bt_a - 1
      [] name = "bt_b_wv" -> p.bt_b + 200
      [] name = "bt_a_ir" -> p.bt_a
      [] name = "bt_b_ir" -> p.bt_b
      [] name = "quality_pixel_bitmask" -> Board(HighSize, p.bitmask)
      [] name = "solar_zenith_angle" -> Board(TieSize, NumPair(p.sza))
      [] name = "solar_azimuth_angle" -> Board(TieSize, NumPair(<<40000, 80000>>))
      [] name = "satellite_zenith_angle" -> Board(TieSize, NumPair(<<8000, 16000>>))
      [] name = "satellite_azimuth_angle" -> Board(TieSize, NumPair(<<-120000, 120000>>))
      [] name = "distance_sun_earth" -> 1
      [] name = "solar_irradiance_vis" -> 2
      [] name = "years_since_launch" -> 2
      [] name = "a0_vis" -> 1
      [] name = "a1_vis" -> 1
      [] name = "a2_vis" -> 0
      [] name = "mean_count_space_vis" -> 1
      [] name = "u_independent_toa_bidirectional_reflectance" ->
            Board(HighSize, NumPair(<<1, 2>>))
      [] name = "u_structured_toa_bidirectional_reflectance" ->
            Board(HighSize, NumPair(<<3, 4>>))
      [] name \in {"time", "time_ir_wv"} ->
            [y \in 1..LowSize |-> [x \in 1..LowSize |-> p.times[y] + 2 * (x - 1)]]
      [] name = "sub_satellite_longitude_start" -> p.lon_start
      [] name = "sub_satellite_longitude_end" -> p.lon_end
      [] name = "sub_satellite_latitude_start" -> p.lat_start
      [] name = "sub_satellite_latitude_end" -> p.lat_end

\* xr.open_dataset(filename)
File(v, p) == [name \in VariableNames(v, p) |-> Content(p, name)]

----------------------------------------------------------------------------
\* The handler: construction and requests.  A result carries here only what
\* the handler computes from the file, which a cached and a recomputed result
\* share; the caches of _get_angles and _get_acq_time and the attributes the
\* caller supplies are followed in SpecCache below.

Resolutions == {HIGH_RESOL, LOW_RESOL}
OtherNames == OTHER_REFLECTANCES \cup {"quality_pixel_bitmask"}
\* the resolution the reader's dataset registry gives a channel
NativeResolution(name) == IF name = "VIS" THEN HIGH_RESOL ELSE LOW_RESOL

NoCall == [op |-> "init"]

Init ==
    /\ \E h \in Handlers :
          /\ variant = h.variant
          /\ mask_bad_quality = h.mask_bad_quality
          /\ projection_longitude = h.projection_longitude
          /\ nc = File(h.variant, h.p)
    /\ call = NoCall
    /\ ret = [err |-> "none"]
    /\ handlers = << >>
    /\ angles_cache = << >>
    /\ acq_time_cache = << >>

GetChannel ==
    \E name \in CHANNELS, calibration \in Calibrations :
        /\ call' = [op |-> "get_dataset", name |-> name,
                    resolution |-> NativeResolution(name), calibration |-> calibration]
        /\ ret' = get_dataset(variant, mask_bad_quality, projection_longitude, nc,
                              name, NativeResolution(name), calibration)
        /\ UNCHANGED <<variant, mask_bad_quality, projection_longitude, nc,
                       handlers, angles_cache, acq_time_cache>>

GetAngles ==
    \E name \in ANGLES, resolution \in Resolutions :
        /\ call' = [op |-> "get_dataset", name |-> name,
                    resolution |-> resolution, calibration |-> "none"]
        /\ ret' = get_dataset(variant, mask_bad_quality, projection_longitude, nc,
                              name, resolution, "none")
        /\ UNCHANGED <<variant, mask_bad_quality, projection_longitude, nc,
                       handlers, angles_cache, acq_time_cache>>

GetOther ==
    \E name \in OtherNames :
        /\ call' = [op |-> "get_dataset", name |-> name,
                    resolution |-> HIGH_RESOL, calibration |-> "none"]
        /\ ret' = get_dataset(variant, mask_bad_quality, projection_longitude, nc,
                              name, HIGH_RESOL, "none")
        /\ UNCHANGED <<variant, mask_bad_quality, projection_longitude, nc,
                       handlers, angles_cache, acq_time_cache>>

GetAreaDef ==
    \E resolution \in Resolutions :
        /\ call' = [op |-> "get_area_def", resolution |-> resolution]
        /\ ret' = [err |-> "none",
                   area |-> get_area_def(projection_longitude, nc, resolution)]
        /\ UNCHANGED <<variant, mask_bad_quality, projection_longitude, nc,
                       handlers, angles_cache, acq_time_cache>>

Next == GetChannel \/ GetAngles \/ GetOther \/ GetAreaDef

Spec == Init /\ [][Next]_vars

----------------------------------------------------------------------------
\* The two interpolation methods on their own: Init draws the arguments of one
\* call, the action makes it.

MaxTarget == 6
MaxLines == 3
CoarseSizes == {2, 3}
TieVals == {0, 12}

Grids == UNION {[1..ny -> [1..nx -> {Num(e) : e \in TieVals}]] :
                    ny \in CoarseSizes, nx \in CoarseSizes}

\* the timestamps of n scanlines: each line starts at one of TimeVals and
\* advances by 2 per pixel
TimeGrids == UNION {{[y \in 1..n |-> <<t[y], t[y] + 2>>] : t \in [1..n -> TimeVals]} :
                        n \in 1..MaxLines}

TiepointCalls ==
    {[op |-> "interp_tiepoints", done |-> FALSE, ds |-> ds,
      target_x |-> Coords(nx, 0), target_y |-> Coords(ny, 100)] :
         ds \in Grids, nx \in 1..MaxTarget, ny \in 1..MaxTarget}

AcqTimeCalls ==
    {[op |-> "interp_acq_time", done |-> FALSE, time2d |-> t,
      y |-> Coords(Len(t), 100), target_y |-> Coords(n, 0)] :
         t \in TimeGrids, n \in 1..MaxTarget}

InitInterp ==
    /\ variant = "Full"
    /\ mask_bad_quality = FALSE
    /\ projection_longitude = 0
    /\ nc = File("Full", Default)
    /\ call \in TiepointCalls \cup AcqTimeCalls
    /\ ret = [err |-> "none"]
    /\ handlers = << >>
    /\ angles_cache = << >>
    /\ acq_time_cache = << >>

InterpTiepoints ==
    /\ call.op = "interp_tiepoints"
    /\ ~call.done
    /\ call' = [call EXCEPT !.done = TRUE]
    /\ ret' = interp_tiepoints(call.ds, call.target_x, call.target_y)
    /\ UNCHANGED <<variant, mask_bad_quality, projection_longitude, nc,
                       handlers, angles_cache, acq_time_cache>>

InterpAcqTime ==
    /\ call.op = "interp_acq_time"
    /\ ~call.done
    /\ call' = [call EXCEPT !.done = TRUE]
    /\ ret' = interp_acq_time(call.time2d, call.y, call.target_y)
    /\ UNCHANGED <<variant, mask_bad_quality, projection_longitude, nc,
                       handlers, angles_cache, acq_time_cache>>

NextInterp == InterpTiepoints \/ InterpAcqTime

SpecInterp == InitInterp /\ [][NextInterp]_vars

----------------------------------------------------------------------------
\* The memoized methods.  functools.lru_cache wraps the functions _get_angles
\* and _get_acq_time of the base class, so all handlers share the two caches;
\* an entry's key holds the handler.  A hit hands out the object stored, a
\* miss stores the object computed and, in a full cache, drops the entry used
\* least recently.

ANGLES_MAXSIZE == 8
ACQ_TIME_MAXSIZE == 3

\* dictionaries: attribute name -> value
EmptyDict == [k \in {} |-> ""]

\* d.update(e)
dict_update(d, e) ==
    [k \in DOMAIN d \cup DOMAIN e |-> IF k \in DOMAIN e THEN e[k] ELSE d[k]]

cache_find(cache, key) == {i \in 1..Len(cache) : cache[i].key = key}

cache_hit(cache, key) == cache_find(cache, key) # {}

\* the object stored under key
cache_get(cache, key) == cache[CHOOSE i \in cache_find(cache, key) : TRUE].value

\* the entries other than that of key, in their order
cache_without(cache, key) == SelectSeq(cache, LAMBDA e : e.key # key)

\* the cache after a call with key that handed out value: a hit moves the
\* entry to the most recent end, a miss appends it and evicts from a full cache
cache_put(cache, key, value, maxsize) ==
    IF cache_hit(cache, key)
    THEN Append(cache_without(cache, key), [key |-> key, value |-> value])
    ELSE Append(IF Len(cache) >= maxsize THEN Tail(cache) ELSE cache,
                [key |-> key, value |-> value])

\* the DataArray _get_angles computes, with the attributes it has then
new_angles(hd, name, resolution) ==
    [err |-> "none", attrs |-> EmptyDict,
     data |-> get_angles(hd.variant, hd.nc, name, resolution).data]

\* self._get_angles(name, resolution) through the cache
cached_angles(cache, h, hd, name, resolution) ==
    IF cache_hit(cache, <<h, name, resolution>>)
    THEN cache_get(cache, <<h, name, resolution>>)
    ELSE new_angles(hd, name, resolution)

\* self._get_acq_time(resolution) through the cache
cached_acq_time(cache, h, hd, resolution) ==
    IF cache_hit(cache, <<h, resolution>>)
    THEN cache_get(cache, <<h, resolution>>)
    ELSE get_acq_time(hd.nc, resolution)

\* ds.attrs.update(info) on the object ds
attrs_update(ds, info) == [ds EXCEPT !.attrs = dict_update(ds.attrs, info)]

\* the angle cache after get_dataset for an angle: _update_attrs works on the
\* object the cache holds
angles_cache_after(cache, h, hd, name, resolution, info) ==
    cache_put(cache, <<h, name, resolution>>,
              attrs_update(cached_angles(cache, h, hd, name, resolution), info),
              ANGLES_MAXSIZE)

\* the Full handler reads the solar zenith angles for a VIS reflectance
needs_sza(hd, name, calibration) ==
    hd.variant = "Full" /\ name = "VIS" /\ calibration = "reflectance"

\* _calibrate with the solar zenith angles sza that _get_angles handed out
calibrate_with(hd, name, calibration, sza) ==
    IF needs_sza(hd, name, calibration)
    THEN reflectance_of(hd.nc,
                        vis_counts_to_radiance(hd.nc, read_dataset(hd.variant, hd.nc, name)),
                        sza)
    ELSE calibrate(hd.variant, hd.nc, read_dataset(hd.variant, hd.nc, name),
                   name, calibration)

\* the caches after _get_channel
angles_cache_after_channel(cache, h, hd, name, calibration) ==
    IF needs_sza(hd, name, calibration)
    THEN cache_put(cache, <<h, "solar_zenith_angle", HIGH_RESOL>>,
                   cached_angles(cache, h, hd, "solar_zenith_angle", HIGH_RESOL),
                   ANGLES_MAXSIZE)
    ELSE cache

acq_time_cache_after_channel(cache, h, hd, name, calibration, failed) ==
    IF failed THEN cache  \* _calibrate raised before _get_acq_time was called
    ELSE cache_put(cache, <<h, NativeResolution(name)>>,
                   cached_acq_time(cache, h, hd, NativeResolution(name)),
                   ACQ_TIME_MAXSIZE)

\* what get_dataset returns for a channel: ds with info in its attributes
channel_result(hd, ds, info) ==
    IF Failed(ds) THEN ds
    ELSE [err |-> "none", data |-> ds.data, warned |-> ds.warned,
          acq_time |-> ds.acq_time, hit |-> FALSE, before |-> EmptyDict,
          attrs |-> [info |-> info,
                     orbital_parameters |-> ds.attrs.orbital_parameters]]

\* get_dataset for a channel with the objects the caches handed out
get_channel_cached(hd, name, calibration, info, sza, acq_time) ==
    channel_result(hd,
        update_attrs(hd.projection_longitude, hd.nc,
                     finish_channel(hd.variant, hd.mask_bad_quality, hd.nc, name,
                                    calibrate_with(hd, name, calibration, sza),
                                    acq_time),
                     TRUE),
        info)

\* what get_dataset returns for an angle: the object ds of the cache after
\* _update_attrs; before: its attributes when the cache handed it out
angles_result(hd, ds, hit, before) ==
    [err |-> "none", data |-> ds.data, warned |-> FALSE, hit |-> hit,
     before |-> before,
     attrs |-> [info |-> ds.attrs,
                orbital_parameters |->
                    get_orbital_parameters(hd.projection_longitude, hd.nc)]]

----------------------------------------------------------------------------
\* Requests to two handlers that share the caches (specification SpecCache).

MaxRequests == 3

HandlerIds == {"h1", "h2"}

\* the attributes a caller hands to get_dataset
Infos == {[units |-> "degrees"], [standard_name |-> "angle"]}
DefaultInfo == [units |-> "degrees"]

\* the angle datasets in the order of the reader's dataset registry
AngleRegistry ==
    <<<<"solar_zenith_angle", HIGH_RESOL>>, <<"solar_zenith_angle", LOW_RESOL>>,
      <<"solar_azimuth_angle", HIGH_RESOL>>, <<"solar_azimuth_angle", LOW_RESOL>>,
      <<"satellite_zenith_angle", HIGH_RESOL>>, <<"satellite_zenith_angle", LOW_RESOL>>,
      <<"satellite_azimuth_angle", HIGH_RESOL>>, <<"satellite_azimuth_angle", LOW_RESOL>>>>

CacheCalibrations == {"radiance", "reflectance"}

Constructed(h) ==
    IF h = "h1"
    THEN [variant |-> "Full", mask_bad_quality |-> FALSE, projection_longitude |-> 0,
          nc |-> File("Full", Default)]
    ELSE [variant |-> "Easy", mask_bad_quality |-> FALSE, projection_longitude |-> 57,
          nc |-> File("Easy", [Default EXCEPT !.sza = <<89999, 90000>>,
                                              !.times = [y \in 1..LowSize |-> 20 * y]])]

InitCache ==
    /\ handlers = [h \in HandlerIds |-> Constructed(h)]
    /\ variant = Constructed("h1").variant
    /\ mask_bad_quality = Constructed("h1").mask_bad_quality
    /\ projection_longitude = Constructed("h1").projection_longitude
    /\ nc = Constructed("h1").nc
    /\ call = [op |-> "init", n |-> 0]
    /\ ret = [err |-> "none"]
    /\ angles_cache = << >>
    /\ acq_time_cache = << >>

\* the handler variables show the handler that served the last request
Serve(h) ==
    /\ variant' = handlers[h].variant
    /\ mask_bad_quality' = handlers[h].mask_bad_quality
    /\ projection_longitude' = handlers[h].projection_longitude
    /\ nc' = handlers[h].nc
    /\ UNCHANGED handlers

GetAnglesCached ==
    \E h \in HandlerIds, name \in ANGLES, resolution \in Resolutions, info \in Infos :
        /\ call.n < MaxRequests
        /\ call' = [op |-> "get_dataset", h |-> h, name |-> name,
                    resolution |-> resolution, calibration |-> "none",
                    info |-> info, n |-> call.n + 1]
        /\ angles_cache' = angles_cache_after(angles_cache, h, handlers[h],
                                              name, resolution, info)
        /\ ret' = angles_result(handlers[h],
                                cache_get(angles_cache', <<h, name, resolution>>),
                                cache_hit(angles_cache, <<h, name, resolution>>),
                                cached_angles(angles_cache, h, handlers[h],
                                              name, resolution).attrs)
        /\ Serve(h)
        /\ UNCHANGED acq_time_cache

GetChannelCached ==
    \E h \in HandlerIds, name \in CHANNELS, calibration \in CacheCalibrations,
       info \in Infos :
        /\ call.n < MaxRequests
        /\ call' = [op |-> "get_dataset", h |-> h, name |-> name,
                    resolution |-> NativeResolution(name),
                    calibration |-> calibration, info |-> info, n |-> call.n + 1]
        /\ ret' = get_channel_cached(
                      handlers[h], name, calibration, info,
                      cached_angles(angles_cache, h, handlers[h],
                                    "solar_zenith_angle", HIGH_RESOL),
                      cached_acq_time(acq_time_cache, h, handlers[h],
                                      NativeResolution(name)))
        /\ angles_cache' = angles_cache_after_channel(angles_cache, h, handlers[h],
                                                      name, calibration)
        /\ acq_time_cache' = acq_time_cache_after_channel(
                                 acq_time_cache, h, handlers[h], name, calibration,
                                 Failed(ret'))
        /\ Serve(h)

\* the angle cache after the angle datasets named were requested in turn
RECURSIVE angles_cache_after_all(_, _, _, _)
angles_cache_after_all(cache, h, hd, ids) ==
    IF ids = << >> THEN cache
    ELSE angles_cache_after_all(
             angles_cache_after(cache, h, hd, Head(ids)[1], Head(ids)[2], DefaultInfo),
             h, hd, Tail(ids))

\* a caller loads all angle datasets of a handler, in registry order
LoadAngles ==
    \E h \in HandlerIds :
        /\ call.n < MaxRequests
        /\ call' = [op |-> "load_angles", h |-> h, n |-> call.n + 1]
        /\ angles_cache' = angles_cache_after_all(angles_cache, h, handlers[h],
                                                  AngleRegistry)
        /\ ret' = [err |-> "none"]
        /\ Serve(h)
        /\ UNCHANGED acq_time_cache

\* the acquisition-time cache after the channels named were requested in turn
RECURSIVE acq_time_cache_after_all(_, _, _, _)
acq_time_cache_after_all(cache, h, hd, names) ==
    IF names = << >> THEN cache
    ELSE acq_time_cache_after_all(
             acq_time_cache_after_channel(cache, h, hd, Head(names), "counts", FALSE),
             h, hd, Tail(names))

\* a caller loads the counts of the three channels of a handler
LoadCounts ==
    \E h \in HandlerIds :
        /\ call.n < MaxRequests
        /\ handlers[h].variant = "Full"
        /\ call' = [op |-> "load_counts", h |-> h, n |-> call.n + 1]
        /\ acq_time_cache' = acq_time_cache_after_all(acq_time_cache, h, handlers[h],
                                                      <<"VIS", "WV", "IR">>)
        /\ ret' = [err |-> "none"]
        /\ Serve(h)
        /\ UNCHANGED angles_cache

NextCache == GetAnglesCached \/ GetChannelCached \/ LoadAngles \/ LoadCounts

SpecCache == InitCache /\ [][NextCache]_vars

----------------------------------------------------------------------------
\* Properties of the file handler (specification Spec).

\* the calibration levels of a channel under a variant
Legal(channel, v, level) ==
    IF channel = "VIS"
    THEN (IF v = "Easy" THEN level = "reflectance"
          ELSE level \in {"counts", "radiance", "reflectance"})
    ELSE level \in {"counts", "radiance", "brightness_temperature"}

\* the last operation was a request for a channel
ChannelCall == call.op = "get_dataset" /\ call.name \in CHANNELS

\* C1 (as the code has it): a channel request fails exactly when the level is
\* not legal for the channel and variant, and succeeds for every legal
\* combination; the failure is a ValueError for counts or radiance of VIS under
\* Easy and a KeyError for every other illegal level.
C1_IllegalLevelFails ==
    ChannelCall =>
        /\ (ret.err # "none") <=> ~Legal(call.name, variant, call.calibration)
        /\ ret.err # "none" =>
              ret.err = IF /\ call.name = "VIS"
                           /\ variant = "Easy"
                           /\ call.calibration \in {"counts", "radiance"}
                        THEN "ValueError" ELSE "KeyError"

\* an illegal level was requested and refused with a ValueError
C1_Witness ==
    /\ ChannelCall
    /\ ~Legal(call.name, variant, call.calibration)
    /\ ret.err = "ValueError"

\* C1 (as stated): a channel request fails exactly when the level is not legal,
\* and all failures are of one and the same kind.
C1_SingleErrorKind ==
    [][ /\ (call'.op = "get_dataset" /\ call'.name \in CHANNELS) =>
              ((ret'.err # "none") <=> ~Legal(call'.name, variant', call'.calibration))
        /\ (ChannelCall /\ ret.err # "none"
              /\ call'.op = "get_dataset" /\ call'.name \in CHANNELS
              /\ ret'.err # "none") => ret'.err = ret.err ]_vars

\* C2: a radiance request for WV or IR returns, pixel by pixel, a + b * counts
\* with the channel's radiance coefficients where that is strictly positive and
\* not-a-number elsewhere, in the shape of the counts (b is held in halves).
C2_IrWvRadiance ==
    (ChannelCall /\ call.name \in {"WV", "IR"} /\ call.calibration = "radiance") =>
        LET counts == IF call.name = "WV" THEN nc.count_wv ELSE nc.count_ir
            a == IF call.name = "WV" THEN nc.a_wv ELSE nc.a_ir
            b == IF call.name = "WV" THEN nc.b_wv ELSE nc.b_ir
            Linear(c) == a + (b * c) \div 2
        IN  /\ ret.err = "none"
            /\ Len(ret.data) = Len(counts)
            /\ \A y \in 1..Len(counts) :
                  /\ Len(ret.data[y]) = Len(counts[y])
                  /\ \A x \in 1..Len(counts[y]) :
                        ret.data[y][x] = IF Linear(counts[y][x].v) > 0
                                         THEN Num(Linear(counts[y][x].v))
                                         ELSE NaN

\* IR counts 100, 200 with a = -10 and b = 0.5 gave the radiances 40, 90
C2_Witness ==
    /\ ChannelCall
    /\ call.name = "IR"
    /\ call.calibration = "radiance"
    /\ nc.a_ir = -10
    /\ nc.b_ir = 1
    /\ nc.count_ir[1][1] = Num(100)
    /\ nc.count_ir[1][2] = Num(200)
    /\ ret.err = "none"
    /\ ret.data[1][1] = Num(40)
    /\ ret.data[1][2] = Num(90)

\* the dataset of the last channel request as calibration left it
Calibrated ==
    calibrate(variant, nc, read_dataset(variant, nc, call.name),
              call.name, call.calibration).data

\* C3: in the result of a channel request a pixel is not-a-number through
\* quality masking exactly when the channel is VIS, mask_bad_quality is enabled
\* and the pixel's bitmask is nonzero; every other pixel has its calibrated
\* value.
C3_QualityMasking ==
    (ChannelCall /\ ret.err = "none") =>
        \A p \in Pixels(ret.data) :
            ret.data[p[1]][p[2]] =
                IF /\ call.name = "VIS"
                   /\ mask_bad_quality
                   /\ nc.quality_pixel_bitmask[p[1]][p[2]] # 0
                THEN NaN
                ELSE Calibrated[p[1]][p[2]]

\* a VIS request under masking: a flagged pixel was replaced, its unflagged
\* neighbour kept its value
C3_Witness ==
    /\ ChannelCall
    /\ call.name = "VIS"
    /\ mask_bad_quality
    /\ ret.err = "none"
    /\ nc.quality_pixel_bitmask[1][1] # 0
    /\ nc.quality_pixel_bitmask[1][2] = 0
    /\ isnan(ret.data[1][1])
    /\ ~isnan(ret.data[1][2])
    /\ ~isnan(Calibrated[1][1])

\* every pixel of the quality bitmask has bit value 2 set
AllUseWithCaution ==
    \A p \in Pixels(nc.quality_pixel_bitmask) :
        (nc.quality_pixel_bitmask[p[1]][p[2]] \div 2) % 2 = 1

\* C4: a VIS request of a legal level with mask_bad_quality disabled succeeds,
\* warns exactly when every pixel of the bitmask has bit value 2 set, and
\* returns the calibrated data as they are; no other request warns.
C4_UseWithCautionWarning ==
    (call.op = "get_dataset") =>
        IF call.name = "VIS" /\ ~mask_bad_quality
        THEN Legal("VIS", variant, call.calibration) =>
                 /\ ret.err = "none"
                 /\ ret.warned <=> AllUseWithCaution
                 /\ ret.data = Calibrated
        ELSE ~ret.warned

\* a VIS request warned and still returned data
C4_Witness ==
    /\ ChannelCall
    /\ call.name = "VIS"
    /\ ~mask_bad_quality
    /\ ret.err = "none"
    /\ ret.warned
    /\ \E p \in Pixels(ret.data) : ~isnan(ret.data[p[1]][p[2]])

\* the solar zenith angles on the VIS grid, in 1/1000 degree
HighResolSza == get_angles(variant, nc, "solar_zenith_angle", HIGH_RESOL).data

\* the VIS radiances of the file
VisRadiance == vis_counts_to_radiance(nc, nc.count_vis)

\* C5: in a VIS reflectance of the Full variant a pixel is not-a-number
\* whenever the absolute value of its solar zenith angle is 90 degrees or more,
\* and is not masked by the zenith angle whenever the absolute value is
\* strictly below 90 degrees: a pixel with a radiance that escapes quality
\* masking then has a reflectance.
C5_ZenithMask ==
    (/\ ChannelCall
     /\ call.name = "VIS"
     /\ variant = "Full"
     /\ call.calibration = "reflectance"
     /\ ret.err = "none") =>
        \A p \in Pixels(ret.data) :
            /\ (HighResolSza[p[1]][p[2]].k = "num"
                  /\ Abs(HighResolSza[p[1]][p[2]].v) >= 90000)
                   => isnan(ret.data[p[1]][p[2]])
            /\ (/\ HighResolSza[p[1]][p[2]].k = "num"
                /\ Abs(HighResolSza[p[1]][p[2]].v) < 90000
                /\ ~isnan(VisRadiance[p[1]][p[2]])
                /\ ~(mask_bad_quality /\ nc.quality_pixel_bitmask[p[1]][p[2]] # 0))
                   => ~isnan(ret.data[p[1]][p[2]])

\* a Full VIS reflectance with a pixel at exactly 90 degrees masked and a pixel
\* at 89.999 degrees kept
C5_Witness ==
    /\ ChannelCall
    /\ call.name = "VIS"
    /\ variant = "Full"
    /\ call.calibration = "reflectance"
    /\ ret.err = "none"
    /\ \E p \in Pixels(ret.data) :
          HighResolSza[p[1]][p[2]] = Num(90000) /\ isnan(ret.data[p[1]][p[2]])
    /\ \E p \in Pixels(ret.data) :
          HighResolSza[p[1]][p[2]] = Num(89999) /\ ~isnan(ret.data[p[1]][p[2]])

\* the start-of-scan and end-of-scan samples of a coordinate, Missing when the
\* file lacks the variable
SspSamples(coord) ==
    LET key_start == IF coord = "longitude" THEN "sub_satellite_longitude_start"
                     ELSE "sub_satellite_latitude_start"
        key_end == IF coord = "longitude" THEN "sub_satellite_longitude_end"
                   ELSE "sub_satellite_latitude_end"
    IN  <<IF key_start \in DOMAIN nc THEN nc[key_start] ELSE Missing,
          IF key_end \in DOMAIN nc THEN nc[key_end] ELSE Missing>>

\* both samples of the coordinate exist and their mean over the samples that
\* are not not-a-number is a number or an infinity
SspKnown(coord) ==
    LET s == SspSamples(coord)
    IN  /\ s[1] # Missing
        /\ s[2] # Missing
        /\ ~(isnan(s[1]) /\ isnan(s[2]))
        /\ ~(s[1].k = "inf" /\ s[2].k = "inf" /\ s[1].v # s[2].v)

\* the mean of the samples of the coordinate that are not not-a-number
SspMean(coord) ==
    LET s == SspSamples(coord)
    IN  IF isnan(s[1]) THEN s[2]
        ELSE IF isnan(s[2]) THEN s[1]
        ELSE IF s[1].k = "inf" THEN s[1]
        ELSE IF s[2].k = "inf" THEN s[2]
        ELSE Num((s[1].v + s[2].v) \div 2)

\* both samples of the coordinate exist and are finite
SspFinite(coord) ==
    LET s == SspSamples(coord)
    IN  s[1].k = "num" /\ s[2].k = "num"

\* the orbital parameters hold the projection fields
ProjectionFields(op) ==
    /\ {"projection_longitude", "projection_latitude", "projection_altitude"}
           \subseteq DOMAIN op
    /\ op.projection_longitude = projection_longitude
    /\ op.projection_latitude = 0
    /\ op.projection_altitude = ALTITUDE

\* the orbital parameters hold both actual fields or neither
ActualFields(op, present) ==
    /\ ("satellite_actual_longitude" \in DOMAIN op) <=> present
    /\ ("satellite_actual_latitude" \in DOMAIN op) <=> present

\* C9 (as the code has it): a dataset request of a legal level succeeds
\* whatever the position samples are, its orbital parameters always hold the
\* projection longitude, latitude 0 and altitude, and they hold the actual
\* longitude and latitude exactly when, for both coordinates, both sample
\* variables exist and the mean of the samples that are not not-a-number is
\* itself not not-a-number; the actual fields are then these means, so that a
\* single not-a-number sample is ignored and an infinite sample is passed on.
C9_ActualPositionWhenMeanKnown ==
    (/\ call.op = "get_dataset"
     /\ ChannelCall => Legal(call.name, variant, call.calibration)) =>
        /\ ret.err = "none"
        /\ ProjectionFields(ret.attrs.orbital_parameters)
        /\ ActualFields(ret.attrs.orbital_parameters,
                        SspKnown("longitude") /\ SspKnown("latitude"))
        /\ (SspKnown("longitude") /\ SspKnown("latitude")) =>
              /\ ret.attrs.orbital_parameters.satellite_actual_longitude
                     = SspMean("longitude")
              /\ ret.attrs.orbital_parameters.satellite_actual_latitude
                     = SspMean("latitude")

\* the start-of-scan longitude is not-a-number and the actual longitude is the
\* end-of-scan sample
C9_Witness ==
    /\ call.op = "get_dataset"
    /\ ret.err = "none"
    /\ SspSamples("longitude")[1] = NaN
    /\ SspSamples("longitude")[2] = Num(4)
    /\ "satellite_actual_longitude" \in DOMAIN ret.attrs.orbital_parameters
    /\ ret.attrs.orbital_parameters.satellite_actual_longitude = Num(4)

\* C9 (as stated): the orbital parameters hold the projection fields, and the
\* actual fields exactly when all four samples exist and are finite, their
\* values being the means of the two samples.
C9_ActualPositionWhenAllFinite ==
    (call.op = "get_dataset" /\ ret.err = "none") =>
        /\ ProjectionFields(ret.attrs.orbital_parameters)
        /\ ActualFields(ret.attrs.orbital_parameters,
                        SspFinite("longitude") /\ SspFinite("latitude"))
        /\ (SspFinite("longitude") /\ SspFinite("latitude")) =>
              /\ ret.attrs.orbital_parameters.satellite_actual_longitude
                     = SspMean("longitude")
              /\ ret.attrs.orbital_parameters.satellite_actual_latitude
                     = SspMean("latitude")

\* C10: the area of a high-resolution request is named geos_mviri_vis and has
\* the size of the y axis, the area of any other request is named
\* geos_mviri_ir_wv and has the size of the y_ir_wv axis; in both cases
\* coff = size/2 + 0.5 and loff = size/2 + 0.5 - size (held in half pixels),
\* both scale factors are negated and the scan direction is south to north.
C10_AreaPerResolution ==
    (call.op = "get_area_def") =>
        LET high == call.resolution = HIGH_RESOL
            size == IF high THEN Len(nc.y) ELSE Len(nc.y_ir_wv)
        IN  /\ ret.err = "none"
            /\ (ret.area.a_name = "geos_mviri_vis") <=> high
            /\ (ret.area.a_name = "geos_mviri_ir_wv") <=> ~high
            /\ ret.area.nlines = size
            /\ ret.area.ncols = size
            /\ ret.area.coff = size + 1
            /\ ret.area.loff = (size + 1) - 2 * size
            /\ ret.area.lfac = 0 - sampling_to_lfac_cfac(MVIRI_FIELD_OF_VIEW, size)
            /\ ret.area.cfac = ret.area.lfac
            /\ ret.area.lfac < 0
            /\ ret.area.scandir = "S2N"

\* a low-resolution area was built that is smaller than the VIS grid
C10_Witness ==
    /\ call.op = "get_area_def"
    /\ call.resolution # HIGH_RESOL
    /\ ret.area.a_name = "geos_mviri_ir_wv"
    /\ ret.area.nlines = Len(nc.y_ir_wv)
    /\ ret.area.nlines < Len(nc.y)

\* the brightness temperature b' / (ln(rad) - a') of a radiance rad > 0 where
\* it is positive, else not-a-number; a' is a number, b' and the logarithm are
\* held in 1/1000
PositiveBt(a, b, rad) ==
    LET den == log(Num(rad)).v - 1000 * a
    IN  IF den = 0 THEN (IF b > 0 THEN Inf(1) ELSE NaN)
        ELSE IF (b > 0) # (den > 0) \/ b = 0 THEN NaN
        ELSE IF den > 0 THEN Num((1000 * b) \div den)
        ELSE Num((0 - 1000 * b) \div (0 - den))

\* C13: a brightness-temperature request for WV or IR succeeds; no element of
\* the result is zero or negative; a pixel whose radiance a + b * counts is
\* not positive is not-a-number; every other pixel is the temperature computed
\* from its radiance with the brightness-temperature coefficients where that
\* is positive and not-a-number where it is not.
C13_BrightnessTemperaturePositive ==
    (/\ ChannelCall
     /\ call.name \in {"WV", "IR"}
     /\ call.calibration = "brightness_temperature") =>
        LET counts == IF call.name = "WV" THEN nc.count_wv ELSE nc.count_ir
            a == IF call.name = "WV" THEN nc.a_wv ELSE nc.a_ir
            b == IF call.name = "WV" THEN nc.b_wv ELSE nc.b_ir
            bt_a == IF call.name = "WV" THEN nc.bt_a_wv ELSE nc.bt_a_ir
            bt_b == IF call.name = "WV" THEN nc.bt_b_wv ELSE nc.bt_b_ir
            Radiance(c) == a + (b * c) \div 2
        IN  /\ ret.err = "none"
            /\ Len(ret.data) = Len(counts)
            /\ \A y \in 1..Len(counts) :
                  /\ Len(ret.data[y]) = Len(counts[y])
                  /\ \A x \in 1..Len(counts[y]) :
                        /\ isnan(ret.data[y][x]) \/ GtF(ret.data[y][x], 0)
                        /\ ret.data[y][x] =
                              IF Radiance(counts[y][x].v) > 0
                              THEN PositiveBt(bt_a, bt_b, Radiance(counts[y][x].v))
                              ELSE NaN

\* IR counts 0 and 22 with a = -10, b = 0.5 have the radiances -10 and 1: the
\* first pixel is not-a-number, the second has the temperature 1300 / (0 + 2)
C13_Witness ==
    /\ ChannelCall
    /\ call.name = "IR"
    /\ call.calibration = "brightness_temperature"
    /\ nc.count_ir[1] = <<Num(0), Num(22)>>
    /\ nc.a_ir = -10
    /\ nc.b_ir = 1
    /\ nc.bt_a_ir = -2
    /\ nc.bt_b_ir = 1300
    /\ ret.err = "none"
    /\ ret.data[1] = <<NaN, Num(650)>>


----------------------------------------------------------------------------
\* Properties of the two interpolation methods (specification SpecInterp).

\* the mean timestamp of a scanline of the last acquisition-time call
LineMean(line) == (call.time2d[line][1] + call.time2d[line][2]) \div 2

\* C6: when the target has k times the n scanlines of the series, k >= 1, the
\* acquisition times have k * n entries and entry i (from 0) is the mean
\* timestamp of scanline floor(i / k); for k > 1 they are labelled with the
\* target coordinates, for k = 1 the reduced series is returned as it is.
C6_AcqTimeUpsampling ==
    (/\ call.op = "interp_acq_time"
     /\ call.done
     /\ Len(call.target_y) % Len(call.time2d) = 0) =>
        /\ ret.err = "none"
        /\ Len(ret.data) = Len(call.target_y)
        /\ \A i \in 0..(Len(call.target_y) - 1) :
              ret.data[i + 1]
                  = LineMean((i \div (Len(call.target_y) \div Len(call.time2d))) + 1)
        /\ ret.y = IF Len(call.target_y) = Len(call.time2d)
                   THEN call.y ELSE call.target_y

\* two scanlines with different mean timestamps t0, t1 were upsampled to
\* t0, t0, t1, t1
C6_Witness ==
    /\ call.op = "interp_acq_time"
    /\ call.done
    /\ Len(call.time2d) = 2
    /\ Len(call.target_y) = 4
    /\ LineMean(1) # LineMean(2)
    /\ ret.err = "none"
    /\ ret.data = <<LineMean(1), LineMean(1), LineMean(2), LineMean(2)>>
    /\ ret.y = call.target_y

\* the sampling ratio of the last tie-point call when the target has the same
\* integer multiple of the coarse size on both axes, else 0
IntegerRatio ==
    IF /\ Len(call.target_x) % NCols(call.ds) = 0
       /\ Len(call.target_y) % NRows(call.ds) = 0
       /\ Len(call.target_x) \div NCols(call.ds)
              = Len(call.target_y) \div NRows(call.ds)
    THEN Len(call.target_x) \div NCols(call.ds)
    ELSE 0

\* a and b are numbers that lie, in this order, between the numbers lo and hi
Ordered(lo, a, b, hi) ==
    /\ {lo.k, a.k, b.k, hi.k} = {"num"}
    /\ lo.v <= hi.v => (lo.v <= a.v /\ a.v <= b.v /\ b.v <= hi.v)
    /\ lo.v >= hi.v => (lo.v >= a.v /\ a.v >= b.v /\ b.v >= hi.v)

\* C7: with the integer sampling ratio s on both axes the interpolated array
\* has the shape of the target grid, equals the coarse value (i, j) at target
\* position (i * s, j * s), and along each axis the values from one tie-point
\* to the next lie between the two tie-point values and do not change
\* direction.
C7_TiepointInterpolation ==
    (call.op = "interp_tiepoints" /\ call.done /\ IntegerRatio > 0) =>
        /\ ret.err = "none"
        /\ Len(ret.data) = Len(call.target_y)
        /\ \A y \in 1..Len(ret.data) : Len(ret.data[y]) = Len(call.target_x)
        /\ \A i \in 0..(NRows(call.ds) - 1), j \in 0..(NCols(call.ds) - 1) :
              ret.data[i * IntegerRatio + 1][j * IntegerRatio + 1]
                  = call.ds[i + 1][j + 1]
        /\ \A y \in 1..((NRows(call.ds) - 1) * IntegerRatio + 1),
              j \in 0..(NCols(call.ds) - 2), k \in 0..(IntegerRatio - 1) :
              Ordered(ret.data[y][j * IntegerRatio + 1],
                      ret.data[y][j * IntegerRatio + 1 + k],
                      ret.data[y][j * IntegerRatio + 2 + k],
                      ret.data[y][(j + 1) * IntegerRatio + 1])
        /\ \A x \in 1..((NCols(call.ds) - 1) * IntegerRatio + 1),
              i \in 0..(NRows(call.ds) - 2), k \in 0..(IntegerRatio - 1) :
              Ordered(ret.data[i * IntegerRatio + 1][x],
                      ret.data[i * IntegerRatio + 1 + k][x],
                      ret.data[i * IntegerRatio + 2 + k][x],
                      ret.data[(i + 1) * IntegerRatio + 1][x])

\* a coarse 2 x 2 grid was interpolated onto a 4 x 4 grid: the corner values
\* 0 and 12 of the first row are kept and the value between them is 6
C7_Witness ==
    /\ call.op = "interp_tiepoints"
    /\ call.done
    /\ NRows(call.ds) = 2
    /\ NCols(call.ds) = 2
    /\ Len(call.target_x) = 4
    /\ Len(call.target_y) = 4
    /\ call.ds[1] = <<Num(0), Num(12)>>
    /\ ret.err = "none"
    /\ ret.data[1][1] = Num(0)
    /\ ret.data[1][2] = Num(6)
    /\ ret.data[1][3] = Num(12)

\* C8: tie-point interpolation fails with an error and returns no array
\* whenever the target size is not an integer multiple of the coarse size on
\* the x axis or on the y axis or the two ratios differ, and acquisition-time
\* upsampling fails whenever the target is larger than the series but not a
\* multiple of its length.
C8_NonIntegerRatioFails ==
    /\ (call.op = "interp_tiepoints" /\ call.done /\ IntegerRatio = 0) =>
           (ret.err = "ValueError" /\ "data" \notin DOMAIN ret)
    /\ (/\ call.op = "interp_acq_time"
        /\ call.done
        /\ Len(call.target_y) > Len(call.time2d)
        /\ Len(call.target_y) % Len(call.time2d) # 0) =>
           (ret.err = "ValueError" /\ "data" \notin DOMAIN ret)

\* a coarse 2 x 2 grid with a target of 4 columns and 3 rows: an array of the
\* target's shape was returned
C8_Witness ==
    /\ call.op = "interp_tiepoints"
    /\ call.done
    /\ NRows(call.ds) = 2
    /\ NCols(call.ds) = 2
    /\ Len(call.target_x) = 4
    /\ Len(call.target_y) = 3
    /\ ret.err = "none"
    /\ Len(ret.data) = 3

----------------------------------------------------------------------------
\* Properties of requests through the caches (specification SpecCache).

\* the last operation was a dataset request to one of the handlers sharing
\* the caches
CachedRequest == call.op = "get_dataset" /\ "h" \in DOMAIN call

\* what the last request returns when it is the only one its handler ever got
Alone ==
    get_dataset(variant, mask_bad_quality, projection_longitude, nc,
                call.name, call.resolution, call.calibration)

\* the last request returned the values and attributes of the same request
\* issued alone
SameAsAlone ==
    /\ ret.err = Alone.err
    /\ ret.err = "none" =>
          /\ ret.data = Alone.data
          /\ ret.attrs.orbital_parameters = Alone.attrs.orbital_parameters
          /\ ret.attrs.info = call.info
          /\ call.name \in CHANNELS => ret.acq_time = Alone.acq_time

\* C11: every dataset request, whatever was requested before on this or on
\* another handler, returns the values and attributes of the same request
\* issued alone on a fresh handler, and an object that a request hands out
\* again has the attributes it had when it was handed out before.
C11_NoSharedMutableState ==
    CachedRequest =>
        /\ SameAsAlone
        /\ (ret.err = "none" /\ ret.hit) => ret.attrs.info = ret.before

\* a second request for an angle dataset got the object of the first and
\* added an attribute to it
C11_Witness ==
    /\ CachedRequest
    /\ call.name \in ANGLES
    /\ ret.hit
    /\ ret.before = [units |-> "degrees"]
    /\ call.info = [standard_name |-> "angle"]
    /\ ret.attrs.info = [units |-> "degrees", standard_name |-> "angle"]

\* no cache holds more entries than its capacity
CachesWithinCapacity ==
    /\ Len(angles_cache) <= ANGLES_MAXSIZE
    /\ Len(acq_time_cache) <= ACQ_TIME_MAXSIZE

\* every cache entry holds the values its handler computes without a cache
CachedValuesAsComputed ==
    /\ \A i \in 1..Len(angles_cache) :
          angles_cache[i].value.data
              = get_angles(handlers[angles_cache[i].key[1]].variant,
                           handlers[angles_cache[i].key[1]].nc,
                           angles_cache[i].key[2], angles_cache[i].key[3]).data
    /\ \A i \in 1..Len(acq_time_cache) :
          acq_time_cache[i].value
              = get_acq_time(handlers[acq_time_cache[i].key[1]].nc,
                             acq_time_cache[i].key[2])

\* the last request returned what it returns without a cache: an angle
\* dataset with the interpolated values and the attributes of this request, a
\* channel with the acquisition times of its resolution
ResultAsUncached ==
    CachedRequest =>
        /\ call.name \in ANGLES =>
              /\ ret.data = get_angles(variant, nc, call.name, call.resolution).data
              /\ ret.attrs.info = call.info
        /\ (call.name \in CHANNELS /\ ret.err = "none") =>
              ret.acq_time = get_acq_time(nc, call.resolution).data

\* C12: after any sequence of requests, evictions included, a request for an
\* angle dataset or for the acquisition times of a resolution returns what an
\* uncached computation returns, the caches hold what was computed, and no
\* cache holds more entries than its capacity.
C12_MemoizationTransparent ==
    /\ CachesWithinCapacity
    /\ CachedValuesAsComputed
    /\ ResultAsUncached

\* with the angle cache full, a request served from it returned an attribute
\* that the request did not carry
C12_Witness ==
    /\ CachedRequest
    /\ call.name \in ANGLES
    /\ Len(angles_cache) = ANGLES_MAXSIZE
    /\ ret.hit
    /\ call.info = [standard_name |-> "angle"]
    /\ "units" \in DOMAIN ret.attrs.info

====
